---- MODULE Spec2Model ----
(***************************************************************************)
(* Model of the phrase-boundary interrupt-suppression coordinator of       *)
(* nvda/nvda.py: the class NVDAState, the pre:phrase callback              *)
(* disable_interrupt, the post:phrase callback enable_interrupt and the    *)
(* cron.after job that enable_interrupt schedules.  The screen reader, the *)
(* command batch channel (actions.user.send_ipc_commands) and the facts    *)
(* the gates read are the environment.                                     *)
(***************************************************************************)
EXTENDS Naturals, Sequences, FiniteSets, TLC

VARIABLES
    pre_phrase_sent,    \* NVDAState.pre_phrase_sent
    reenable_commands,  \* NVDAState.reenable_commands
    nvda_running,       \* what actions.user.is_nvda_running() returns
    mode_sleep,         \* "sleep" in scope.get("mode")
    spec_file,          \* os.path.exists(SPEC_FILE)
    nvda,               \* the reader's three settings, behaviour -> BOOLEAN
    jobs,               \* pending cron.after jobs, oldest first
    ev,                 \* what the last callback did (observation record)
    unmatched,          \* a gate-passing pre:phrase ran since the last post:phrase
    clean,              \* every channel call so far executed and replied well
    trip,               \* progress of one non-overlapping phrase
    touched,            \* for each pending job: pre:phrase was called since it was scheduled
    after_restore,      \* a restore was scheduled and no gate-passing pre:phrase ran since
    pairing,            \* the callback due next when the calls alternate, else "broken"
    history,            \* the gate facts so far: "never_running", "steady_plain" or "other"
    nvda0               \* the reader's settings before the first callback, kept
                        \* while the run is orderly

vars == <<pre_phrase_sent, reenable_commands, nvda_running, mode_sleep,
          spec_file, nvda, jobs, ev, unmatched, clean, trip,
          touched, after_restore, pairing, history, nvda0>>

\* Largest number of cron.after jobs pending at the same time.
MaxJobs == 2

(***************************************************************************)
(* Command names                                                           *)
(***************************************************************************)
Behaviours == <<"SpeechInterruptForCharacters", "SpeakTypedWords", "SpeakTypedCharacters">>

BehaviourSet == {Behaviours[i] : i \in 1..Len(Behaviours)}

\* The batch with the disables placed before the queries.
commands_DisableFirst ==
    << "disableSpeechInterruptForCharacters",
       "disableSpeakTypedWords",
       "disableSpeakTypedCharacters",
       "getSpeechInterruptForCharacters",
       "getSpeakTypedWords",
       "getSpeakTypedCharacters" >>

\* The batch built by disable_interrupt: the three queries, then the three disables.
commands ==
    << "getSpeechInterruptForCharacters",
       "getSpeakTypedWords",
       "getSpeakTypedCharacters",
       "disableSpeechInterruptForCharacters",
       "disableSpeakTypedWords",
       "disableSpeakTypedCharacters" >>

\* The alternatives of the case pattern in disable_interrupt.
QueryNames ==
    { "getSpeechInterruptForCharacters", "getSpeakTypedWords", "getSpeakTypedCharacters" }

\* The name recorded without the rewrite.
ReplaceGetEnable_Identity(cmd) == cmd

\* cmd.replace("get", "enable"): the only occurrence of "get" in a command
\* name is its verb, a name without it is returned as it is.
ReplaceGetEnable(cmd) ==
    IF \E b \in BehaviourSet : cmd = "get" \o b
    THEN "enable" \o (CHOOSE b \in BehaviourSet : cmd = "get" \o b)
    ELSE cmd

(***************************************************************************)
(* The reader and the command batch channel                                *)
(***************************************************************************)
\* One command executed by the reader: the settings afterwards.
ExecSetting(st, cmd) ==
    IF \E b \in BehaviourSet : cmd = "enable" \o b
    THEN [st EXCEPT ![CHOOSE b \in BehaviourSet : cmd = "enable" \o b] = TRUE]
    ELSE IF \E b \in BehaviourSet : cmd = "disable" \o b
    THEN [st EXCEPT ![CHOOSE b \in BehaviourSet : cmd = "disable" \o b] = FALSE]
    ELSE st

\* One command executed by the reader: the value paired with its name in the
\* reply, the setting for a query and the acknowledgement ack for an action.
ExecValue(st, cmd, ack) ==
    IF \E b \in BehaviourSet : cmd = "get" \o b
    THEN st[CHOOSE b \in BehaviourSet : cmd = "get" \o b]
    ELSE ack

\* The batch executed in order: the settings afterwards and the reply, one
\* (name, value) pair for each command, in the order sent.
RECURSIVE SendCommands(_, _, _)
SendCommands(st, cmds, ack) ==
    IF cmds = << >>
    THEN [nvda |-> st, items |-> << >>]
    ELSE LET rest == SendCommands(ExecSetting(st, Head(cmds)), Tail(cmds), ack)
         IN  [nvda  |-> rest.nvda,
              items |-> << <<Head(cmds), ExecValue(st, Head(cmds), ack)>> >> \o rest.items]

\* The first n commands of a batch.
Prefix(cmds, n) == SubSeq(cmds, 1, n)

\* What one call of the channel can do.  kind "ok": every command executed,
\* a well-formed reply.  kind "raise": the call raises after the reader
\* executed some prefix of the batch.  kind "none": every command executed and
\* the reply is not iterable.  kind "bad": every command executed and one item
\* of the reply is not a pair.
ChannelOutcomes(st, cmds) ==
    LET okReply(ack) == SendCommands(st, cmds, ack)
    IN  { [kind |-> "ok", nvda |-> okReply(ack).nvda, items |-> okReply(ack).items]
            : ack \in BOOLEAN }
        \cup
        { [kind |-> "raise", nvda |-> SendCommands(st, Prefix(cmds, n), TRUE).nvda,
           items |-> << >>] : n \in 0..Len(cmds) }
        \cup
        { [kind |-> "none", nvda |-> okReply(TRUE).nvda, items |-> << >>] }
        \cup
        { [kind |-> "bad", nvda |-> okReply(ack).nvda,
           items |-> [okReply(ack).items EXCEPT ![k] = << okReply(ack).items[k][1] >>]]
            : ack \in BOOLEAN, k \in 1..Len(cmds) }

\* A call made while the reader is not running cannot reach it.
Channel(running, st, cmds) ==
    IF running THEN ChannelOutcomes(st, cmds)
    ELSE { [kind |-> "raise", nvda |-> st, items |-> << >>] }

(***************************************************************************)
(* disable_interrupt                                                       *)
(***************************************************************************)
\* The gate of disable_interrupt without its sleep-mode test.
DisableGateAborts_NoSleep(running, SLEEP_MODE, marker) ==
    (~running) \/ (~marker)

\* The condition of the early return of disable_interrupt.
DisableGateAborts(running, SLEEP_MODE, marker) ==
    (~running) \/ SLEEP_MODE \/ (~marker)

\* The loop without the guard "if value": every query is recorded.
RECURSIVE CollectReenable_NoValueGuard(_, _)
CollectReenable_NoValueGuard(items, acc) ==
    IF items = << >>
    THEN [list |-> acc, raised |-> FALSE]
    ELSE IF Len(Head(items)) # 2
    THEN [list |-> acc, raised |-> TRUE]
    ELSE LET command == Head(items)[1]
         IN  IF command \in QueryNames
             THEN CollectReenable_NoValueGuard(Tail(items), Append(acc, ReplaceGetEnable(command)))
             ELSE CollectReenable_NoValueGuard(Tail(items), acc)

\* The loop over the reply: the list built so far, and whether unpacking an
\* item raised (an item that is not a pair stops the loop).
RECURSIVE CollectReenable(_, _)
CollectReenable(items, acc) ==
    IF items = << >>
    THEN [list |-> acc, raised |-> FALSE]
    ELSE IF Len(Head(items)) # 2
    THEN [list |-> acc, raised |-> TRUE]
    ELSE LET command == Head(items)[1]
             value   == Head(items)[2]
         IN  IF command \in QueryNames /\ value
             THEN CollectReenable(Tail(items), Append(acc, ReplaceGetEnable(command)))
             ELSE CollectReenable(Tail(items), acc)

\* disable_interrupt without the assignment of the empty list: the loop
\* appends to the list of the previous phrase.
DisableAfterSend_Merge(o, sent, list) ==
    IF o.kind = "raise"
    THEN [pre_phrase_sent |-> sent, reenable_commands |-> list, raised |-> TRUE]
    ELSE IF o.kind = "none"
    THEN [pre_phrase_sent |-> sent, reenable_commands |-> list, raised |-> TRUE]
    ELSE LET r == CollectReenable(o.items, list)
         IN  IF r.raised
             THEN [pre_phrase_sent |-> sent, reenable_commands |-> r.list, raised |-> TRUE]
             ELSE [pre_phrase_sent |-> TRUE, reenable_commands |-> r.list, raised |-> FALSE]

\* disable_interrupt after the gate, given what the channel call did: the
\* new coordinator state and whether the callback raised.
DisableAfterSend(o, sent, list) ==
    IF o.kind = "raise"
    THEN [pre_phrase_sent |-> sent, reenable_commands |-> list, raised |-> TRUE]
    ELSE IF o.kind = "none"
    THEN [pre_phrase_sent |-> sent, reenable_commands |-> << >>, raised |-> TRUE]
    ELSE LET r == CollectReenable(o.items, << >>)
         IN  IF r.raised
             THEN [pre_phrase_sent |-> sent, reenable_commands |-> r.list, raised |-> TRUE]
             ELSE [pre_phrase_sent |-> TRUE, reenable_commands |-> r.list, raised |-> FALSE]

(***************************************************************************)
(* enable_interrupt                                                        *)
(***************************************************************************)
\* The gate of enable_interrupt with the sleep test of disable_interrupt.
EnableGateAborts_PlainSleep(running, SLEEP_MODE, sent, marker) ==
    (~running) \/ SLEEP_MODE \/ (~marker)

\* The condition of the first early return of enable_interrupt.
EnableGateAborts(running, SLEEP_MODE, sent, marker) ==
    (~running) \/ (SLEEP_MODE /\ ~sent) \/ (~marker)

\* enable_interrupt without the final assignment to pre_phrase_sent.
EnableInterrupt_NoReset(running, SLEEP_MODE, marker, sent, list) ==
    IF EnableGateAborts(running, SLEEP_MODE, sent, marker)
    THEN [after |-> FALSE, pre_phrase_sent |-> sent, gate |-> FALSE]
    ELSE IF Len(list) = 0
    THEN [after |-> FALSE, pre_phrase_sent |-> sent, gate |-> TRUE]
    ELSE [after |-> TRUE, pre_phrase_sent |-> sent, gate |-> TRUE]

\* enable_interrupt without the early return on an empty list.
EnableInterrupt_NoEmptyCheck(running, SLEEP_MODE, marker, sent, list) ==
    IF EnableGateAborts(running, SLEEP_MODE, sent, marker)
    THEN [after |-> FALSE, pre_phrase_sent |-> sent, gate |-> FALSE]
    ELSE [after |-> TRUE, pre_phrase_sent |-> FALSE, gate |-> TRUE]

\* enable_interrupt with the reset of pre_phrase_sent placed before the gate.
EnableInterrupt_ResetOnAbort(running, SLEEP_MODE, marker, sent, list) ==
    IF EnableGateAborts(running, SLEEP_MODE, sent, marker)
    THEN [after |-> FALSE, pre_phrase_sent |-> FALSE, gate |-> FALSE]
    ELSE IF Len(list) = 0
    THEN [after |-> FALSE, pre_phrase_sent |-> sent, gate |-> TRUE]
    ELSE [after |-> TRUE, pre_phrase_sent |-> FALSE, gate |-> TRUE]

\* enable_interrupt with the reset of pre_phrase_sent done on the
\* empty-list return as well.
EnableInterrupt_ResetOnEmpty(running, SLEEP_MODE, marker, sent, list) ==
    IF EnableGateAborts(running, SLEEP_MODE, sent, marker)
    THEN [after |-> FALSE, pre_phrase_sent |-> sent, gate |-> FALSE]
    ELSE IF Len(list) = 0
    THEN [after |-> FALSE, pre_phrase_sent |-> FALSE, gate |-> TRUE]
    ELSE [after |-> TRUE, pre_phrase_sent |-> FALSE, gate |-> TRUE]

\* enable_interrupt: whether cron.after is called and the flag afterwards.
EnableInterrupt(running, SLEEP_MODE, marker, sent, list) ==
    IF EnableGateAborts(running, SLEEP_MODE, sent, marker)
    THEN [after |-> FALSE, pre_phrase_sent |-> sent, gate |-> FALSE]
    ELSE IF Len(list) = 0
    THEN [after |-> FALSE, pre_phrase_sent |-> sent, gate |-> TRUE]
    ELSE [after |-> TRUE, pre_phrase_sent |-> FALSE, gate |-> TRUE]

\* The delay given to cron.after, in milliseconds.
RestoreDelayMs == 400

\* The lambda sending the batch of disable_interrupt instead.
JobBatch_WrongList(snapshot, live) == commands

\* The batch the scheduled lambda sends when it runs: it reads
\* NVDAState.reenable_commands at that moment; snapshot is the value the
\* attribute had when cron.after was called.
JobBatch(snapshot, live) == live

(***************************************************************************)
(* Observation record                                                      *)
(***************************************************************************)
NoEvent ==
    [op |-> "none", gate |-> FALSE, kind |-> "-", sent_before |-> FALSE,
     list_before |-> << >>, nvda_before |-> [b \in BehaviourSet |-> FALSE],
     calls |-> << >>, items |-> << >>,
     after |-> FALSE, raised |-> FALSE, snapshot |-> << >>, matched |-> FALSE,
     delay |-> 0]

AllOff == [b \in BehaviourSet |-> FALSE]

\* An orderly run: the reader always running, awake and marked, the two
\* callbacks alternating from pre:phrase on, no channel call failed.
Orderly(h, p, c) == h = "steady_plain" /\ p # "broken" /\ c

NoTrip == [stage |-> "none", pre |-> [b \in BehaviourSet |-> FALSE]]

Init ==
    /\ pre_phrase_sent = FALSE
    /\ reenable_commands = << >>
    /\ nvda_running \in BOOLEAN
    /\ mode_sleep \in BOOLEAN
    /\ spec_file \in BOOLEAN
    /\ nvda \in [BehaviourSet -> BOOLEAN]
    /\ jobs = << >>
    /\ ev = NoEvent
    /\ unmatched = FALSE
    /\ clean = TRUE
    /\ trip = NoTrip
    /\ touched = << >>
    /\ after_restore = FALSE
    /\ pairing = "pre"
    /\ history = IF ~nvda_running THEN "never_running"
                 ELSE IF ~mode_sleep /\ spec_file THEN "steady_plain"
                 ELSE "other"
    /\ nvda0 = IF Orderly(history, pairing, clean) THEN nvda ELSE AllOff

\* The conditions of a plain phrase: reader running, awake, marker present.
Plain == nvda_running /\ ~mode_sleep /\ spec_file

\* pre:phrase callback.
disable_interrupt ==
    /\ UNCHANGED <<nvda_running, mode_sleep, spec_file, jobs, history>>
    /\ touched' = [i \in 1..Len(touched) |-> TRUE]
    /\ pairing' = IF pairing = "pre" THEN "post" ELSE "broken"
    /\ IF DisableGateAborts(nvda_running, mode_sleep, spec_file)
       THEN /\ UNCHANGED <<pre_phrase_sent, reenable_commands, nvda, unmatched, clean,
                           after_restore>>
            /\ trip' = NoTrip
            /\ ev' = [NoEvent EXCEPT !.op = "disable_interrupt",
                                     !.sent_before = pre_phrase_sent,
                                     !.list_before = reenable_commands,
                                     !.nvda_before = nvda]
       ELSE \E o \in Channel(nvda_running, nvda, commands) :
              LET r == DisableAfterSend(o, pre_phrase_sent, reenable_commands)
              IN  /\ pre_phrase_sent' = r.pre_phrase_sent
                  /\ reenable_commands' = r.reenable_commands
                  /\ nvda' = o.nvda
                  /\ unmatched' = TRUE
                  /\ after_restore' = FALSE
                  /\ clean' = (clean /\ o.kind = "ok")
                  /\ trip' = IF o.kind = "ok" /\ jobs = << >>
                             THEN [stage |-> "started", pre |-> nvda]
                             ELSE NoTrip
                  /\ ev' = [NoEvent EXCEPT !.op = "disable_interrupt",
                                           !.gate = TRUE,
                                           !.kind = o.kind,
                                           !.sent_before = pre_phrase_sent,
                                           !.list_before = reenable_commands,
                                           !.nvda_before = nvda,
                                           !.calls = << commands >>,
                                           !.items = o.items,
                                           !.raised = r.raised]
    /\ nvda0' = IF Orderly(history', pairing', clean') THEN nvda0 ELSE AllOff

\* post:phrase callback.
enable_interrupt ==
    LET r == EnableInterrupt(nvda_running, mode_sleep, spec_file,
                             pre_phrase_sent, reenable_commands)
    IN  /\ r.after => Len(jobs) < MaxJobs
        /\ UNCHANGED <<nvda_running, mode_sleep, spec_file, nvda, reenable_commands, clean,
                       history>>
        /\ touched' = IF r.after THEN Append(touched, FALSE) ELSE touched
        /\ after_restore' = (r.after \/ after_restore)
        /\ pairing' = IF pairing = "post" THEN "pre" ELSE "broken"
        /\ pre_phrase_sent' = r.pre_phrase_sent
        /\ jobs' = IF r.after THEN Append(jobs, reenable_commands) ELSE jobs
        /\ unmatched' = FALSE
        /\ trip' = IF trip.stage = "started" /\ Plain
                   THEN [trip EXCEPT !.stage = IF r.after THEN "ended" ELSE "done"]
                   ELSE NoTrip
        /\ ev' = [NoEvent EXCEPT !.op = "enable_interrupt",
                                 !.gate = r.gate,
                                 !.sent_before = pre_phrase_sent,
                                 !.list_before = reenable_commands,
                                 !.nvda_before = nvda,
                                 !.after = r.after,
                                 !.snapshot = IF r.after THEN reenable_commands ELSE << >>,
                                 !.matched = unmatched,
                                 !.delay = IF r.after THEN RestoreDelayMs ELSE 0]
        /\ nvda0' = IF Orderly(history', pairing', clean') THEN nvda0 ELSE AllOff

\* The oldest cron.after job runs: the lambda sends its batch and drops the reply.
cron_job ==
    /\ jobs # << >>
    /\ UNCHANGED <<nvda_running, mode_sleep, spec_file, pre_phrase_sent,
                   reenable_commands, unmatched, after_restore, pairing, history>>
    /\ jobs' = Tail(jobs)
    /\ touched' = Tail(touched)
    /\ LET batch == JobBatch(Head(jobs), reenable_commands)
       IN  \E o \in { c \in Channel(nvda_running, nvda, batch) : c.kind \in {"ok", "raise"} } :
             /\ nvda' = o.nvda
             /\ clean' = (clean /\ o.kind = "ok")
             /\ trip' = IF trip.stage = "ended" /\ o.kind = "ok"
                        THEN [trip EXCEPT !.stage = "done"]
                        ELSE NoTrip
             /\ ev' = [NoEvent EXCEPT !.op = "cron_job",
                                      !.kind = o.kind,
                                      !.sent_before = pre_phrase_sent,
                                      !.list_before = reenable_commands,
                                      !.nvda_before = nvda,
                                      !.calls = << batch >>,
                                      !.items = o.items,
                                      !.raised = (o.kind = "raise"),
                                      !.snapshot = Head(jobs)]
    /\ nvda0' = IF Orderly(history', pairing', clean') THEN nvda0 ELSE AllOff

\* The environment: the reader starts or stops.
set_nvda_running ==
    /\ nvda_running' = ~nvda_running
    /\ history' = "other"
    /\ UNCHANGED <<pre_phrase_sent, reenable_commands, mode_sleep, spec_file,
                   nvda, jobs, unmatched, clean, trip, touched, after_restore,
                   pairing>>
    /\ ev' = [NoEvent EXCEPT !.op = "env"]
    /\ nvda0' = IF Orderly(history', pairing', clean') THEN nvda0 ELSE AllOff

\* The environment: sleep mode is entered or left.
set_mode_sleep ==
    /\ mode_sleep' = ~mode_sleep
    /\ history' = IF history = "never_running" THEN history ELSE "other"
    /\ UNCHANGED <<pre_phrase_sent, reenable_commands, nvda_running, spec_file,
                   nvda, jobs, unmatched, clean, trip, touched, after_restore,
                   pairing>>
    /\ ev' = [NoEvent EXCEPT !.op = "env"]
    /\ nvda0' = IF Orderly(history', pairing', clean') THEN nvda0 ELSE AllOff

\* The environment: the capability marker appears or disappears.
set_spec_file ==
    /\ spec_file' = ~spec_file
    /\ history' = IF history = "never_running" THEN history ELSE "other"
    /\ UNCHANGED <<pre_phrase_sent, reenable_commands, nvda_running, mode_sleep,
                   nvda, jobs, unmatched, clean, trip, touched, after_restore,
                   pairing>>
    /\ ev' = [NoEvent EXCEPT !.op = "env"]
    /\ nvda0' = IF Orderly(history', pairing', clean') THEN nvda0 ELSE AllOff

Next ==
    \/ disable_interrupt
    \/ enable_interrupt
    \/ cron_job
    \/ set_nvda_running
    \/ set_mode_sleep
    \/ set_spec_file

Spec == Init /\ [][Next]_vars

(***************************************************************************)
(* Properties                                                              *)
(***************************************************************************)
\* The enable-form names of the queries answered with a true value, in the
\* order of the reply.
RECURSIVE EnableForms(_)
EnableForms(items) ==
    IF items = << >>
    THEN << >>
    ELSE LET hit == { b \in BehaviourSet : Head(items) = << "get" \o b, TRUE >> }
         IN  (IF hit = {} THEN << >> ELSE << "enable" \o (CHOOSE b \in hit : TRUE) >>)
             \o EnableForms(Tail(items))

\* C1: a phrase that overlaps no pending restore, run with the reader
\* running, awake, the marker present and a working channel, leaves every
\* behaviour at its value from before the phrase once pre:phrase,
\* post:phrase and the scheduled job (when one was scheduled) have run.
C1_RoundTrip ==
    trip.stage = "done" => nvda = trip.pre

\* C1 witness: a round trip completed by the scheduled job, from settings
\* with one behaviour enabled and another disabled.
C1_Witness ==
    /\ trip.stage = "done"
    /\ ev.op = "cron_job"
    /\ \E b \in BehaviourSet : trip.pre[b]
    /\ \E b \in BehaviourSet : ~trip.pre[b]
    /\ nvda = trip.pre

\* C2: disable_interrupt makes exactly one channel call when the reader is
\* running, sleep mode is off and the marker is present, and none otherwise,
\* whatever the coordinator state.
C2_Gating ==
    ev.op = "disable_interrupt" =>
        Len(ev.calls) = (IF nvda_running /\ ~mode_sleep /\ spec_file THEN 1 ELSE 0)

\* C2 witness: disable_interrupt made no call because of sleep mode alone,
\* in a coordinator state left by an earlier phrase.
C2_Witness ==
    /\ ev.op = "disable_interrupt"
    /\ nvda_running /\ mode_sleep /\ spec_file
    /\ ev.calls = << >>
    /\ reenable_commands # << >>

\* C3: after disable_interrupt passed its gate and the channel returned its
\* pairs, reenable_commands is the enable forms of the queries answered
\* true, in reply order; false queries and action results add nothing and
\* the previous list has no influence.
C3_SelectiveRestore ==
    (ev.op = "disable_interrupt" /\ ev.gate /\ ev.kind = "ok") =>
        reenable_commands = EnableForms(ev.items)

\* C3 witness: first and third query true, second false, the actions
\* acknowledged with a true value, and a non-empty list left by the previous
\* phrase that the new list replaces.
C3_Witness ==
    /\ ev.op = "disable_interrupt" /\ ev.gate /\ ev.kind = "ok"
    /\ clean
    /\ ev.list_before = << "enableSpeechInterruptForCharacters",
                           "enableSpeakTypedCharacters" >>
    /\ ev.items[2][2] = FALSE
    /\ ev.items[4][2] = TRUE
    /\ reenable_commands = << "enableSpeechInterruptForCharacters",
                              "enableSpeakTypedCharacters" >>

\* C4: the batch a scheduled job sends is the list reenable_commands held
\* when enable_interrupt scheduled the job, also when a disable_interrupt
\* ran in between (here with no channel call having failed so far).
C4_SnapshotAtSchedule ==
    (ev.op = "cron_job" /\ clean) => ev.calls = << ev.snapshot >>

\* C5 as stated: after any enable_interrupt that passes its gate the flag
\* pre_phrase_sent is false, and after one that aborts at the gate it is
\* unchanged.
C5_ResetAfterAnyEnd ==
    ev.op = "enable_interrupt" =>
        pre_phrase_sent = (IF ev.gate THEN FALSE ELSE ev.sent_before)

\* C5 amended: after an enable_interrupt that passes its gate with a
\* non-empty reenable_commands the flag pre_phrase_sent is false; after one
\* that aborts at the gate or finds the list empty it is unchanged.
C5_ResetAfterScheduledEnd ==
    ev.op = "enable_interrupt" =>
        pre_phrase_sent = (IF ev.gate /\ ev.list_before # << >>
                           THEN FALSE ELSE ev.sent_before)

\* C5 witness: the flag was true on entry and a restore was scheduled.
C5_Witness ==
    /\ ev.op = "enable_interrupt" /\ ev.gate
    /\ ev.sent_before /\ ev.list_before # << >>
    /\ ~pre_phrase_sent

\* C6: with the reader running, the marker present and pre_phrase_sent
\* true, enable_interrupt in sleep mode passes its gate, and with a
\* non-empty list it schedules one job for that list and resets the flag, as
\* it does outside sleep mode.
C6_SleepCarryOver ==
    (ev.op = "enable_interrupt" /\ nvda_running /\ spec_file /\ mode_sleep
        /\ ev.sent_before) =>
        /\ ev.gate
        /\ ev.list_before # << >> =>
              /\ ev.after
              /\ jobs # << >> /\ jobs[Len(jobs)] = ev.list_before
              /\ ~pre_phrase_sent

\* C6 witness: a restore scheduled by enable_interrupt in sleep mode.
C6_Witness ==
    /\ ev.op = "enable_interrupt"
    /\ nvda_running /\ spec_file /\ mode_sleep
    /\ ev.sent_before /\ ev.list_before # << >>
    /\ ev.after

\* C7: an enable_interrupt that finds reenable_commands empty never calls
\* cron.after and sends no batch, whatever its gate decides.
C7_EmptyRestore ==
    (ev.op = "enable_interrupt" /\ ev.list_before = << >>) =>
        (~ev.after /\ ev.calls = << >>)

\* C7 witness: enable_interrupt passed its gate after a phrase whose
\* queries were all false.
C7_Witness ==
    /\ ev.op = "enable_interrupt" /\ ev.gate
    /\ ev.sent_before /\ ev.matched
    /\ ev.list_before = << >>
    /\ ~ev.after

\* C8: an enable_interrupt with no gate-passing disable_interrupt since the
\* previous enable_interrupt (or ever) schedules no job and sends nothing
\* (here with no channel call having failed so far).
C8_MisuseIsNoOp ==
    (ev.op = "enable_interrupt" /\ ~ev.matched /\ clean) =>
        (~ev.after /\ ev.calls = << >>)

\* C9: disable_interrupt returns normally, whatever the channel call does.
C9_NeverRaises ==
    ev.op = "disable_interrupt" => ~ev.raised

\* C10: when the channel call of disable_interrupt raises or returns a
\* malformed reply, pre_phrase_sent and reenable_commands keep their values.
C10_StateUnchangedOnFailure ==
    (ev.op = "disable_interrupt" /\ ev.kind \in {"raise", "none", "bad"}) =>
        (pre_phrase_sent = ev.sent_before /\ reenable_commands = ev.list_before)

\* C11: a disable_interrupt or enable_interrupt that meets a gate condition
\* (reader not running; sleep mode, for enable_interrupt only with
\* pre_phrase_sent false; marker absent) leaves pre_phrase_sent,
\* reenable_commands and the reader unchanged, sends no batch and schedules
\* no job; and while the reader has never been running the coordinator state
\* is the initial one, with no job pending.
C11_GateAbortFrame ==
    /\ ( \/ /\ ev.op = "disable_interrupt"
            /\ (~nvda_running \/ mode_sleep \/ ~spec_file)
         \/ /\ ev.op = "enable_interrupt"
            /\ (~nvda_running \/ (mode_sleep /\ ~ev.sent_before) \/ ~spec_file) )
       => /\ pre_phrase_sent = ev.sent_before
          /\ reenable_commands = ev.list_before
          /\ nvda = ev.nvda_before
          /\ ev.calls = << >>
          /\ ~ev.after
    /\ history = "never_running"
       => (pre_phrase_sent = FALSE /\ reenable_commands = << >> /\ jobs = << >>)

\* C11 witness: enable_interrupt aborted because the reader had stopped,
\* with the flag set and a non-empty list left by the phrase's start.
C11_Witness ==
    /\ ev.op = "enable_interrupt"
    /\ ~nvda_running /\ ~mode_sleep /\ spec_file
    /\ ev.sent_before /\ pre_phrase_sent
    /\ ev.list_before # << >>
    /\ ev.matched
    /\ jobs = << >>

\* C12: the one batch of a gate-passing disable_interrupt is the three
\* queries followed by the three disables of the same behaviours in the same
\* order, so each query runs before its disable; the value returned for a
\* query, and so what reenable_commands records, is the setting from before
\* this phrase's disables.
C12_QueryBeforeDisable ==
    (ev.op = "disable_interrupt" /\ nvda_running /\ ~mode_sleep /\ spec_file) =>
        /\ ev.calls = << [i \in 1..6 |-> IF i <= 3 THEN "get" \o Behaviours[i]
                                         ELSE "disable" \o Behaviours[i - 3]] >>
        /\ ev.kind = "ok" =>
              /\ \A i \in 1..3 :
                    ev.items[i] = << "get" \o Behaviours[i], ev.nvda_before[Behaviours[i]] >>
              /\ \A b \in BehaviourSet :
                    (\E k \in 1..Len(reenable_commands) :
                        reenable_commands[k] = "enable" \o b) <=> ev.nvda_before[b]
              /\ \A b \in BehaviourSet : ~nvda[b]

\* C12 witness: a behaviour that was enabled before the batch is recorded
\* for restoring although the same batch has disabled it.
C12_Witness ==
    /\ ev.op = "disable_interrupt" /\ ev.kind = "ok"
    /\ ev.nvda_before["SpeakTypedWords"]
    /\ ~ev.nvda_before["SpeakTypedCharacters"]
    /\ ~nvda["SpeakTypedWords"]
    /\ reenable_commands = << "enableSpeakTypedWords" >>

\* One step of C13.
C13_Step ==
    /\ ( /\ ev'.op = "enable_interrupt"
         /\ nvda_running /\ spec_file /\ ~(mode_sleep /\ ~pre_phrase_sent)
         /\ reenable_commands # << >> )
       => /\ jobs' = Append(jobs, reenable_commands)
          /\ ev'.after
          /\ ev'.delay = 400
          /\ ev'.calls = << >>
    /\ ( /\ ev'.op = "cron_job"
         /\ jobs # << >>
         /\ ~Head(touched) )
       => /\ jobs' = Tail(jobs)
          /\ ev'.calls = << Head(jobs) >>
          /\ Head(jobs) = reenable_commands
          /\ Head(jobs) # << >>
          /\ \A k \in 1..Len(Head(jobs)) :
                \E b \in BehaviourSet : Head(jobs)[k] = "enable" \o b

\* C13: an enable_interrupt that passes its gate with a non-empty
\* reenable_commands calls cron.after once, with the delay of 400 ms, adding
\* one job and sending nothing itself; when no disable_interrupt is called
\* before that job runs, the job runs once and sends one batch, the list as
\* it was at scheduling, which holds enable commands only.
C13_RestoreBatch ==
    [][C13_Step]_vars

\* C13 witness: the first two behaviours were enabled and the third was not;
\* the job of the phrase has sent exactly the first two enable commands.
C13_Witness ==
    /\ ev.op = "cron_job" /\ ev.kind = "ok"
    /\ trip.stage = "done"
    /\ trip.pre["SpeechInterruptForCharacters"] /\ trip.pre["SpeakTypedWords"]
    /\ ~trip.pre["SpeakTypedCharacters"]
    /\ ev.calls = << << "enableSpeechInterruptForCharacters", "enableSpeakTypedWords" >> >>
    /\ ev.snapshot = ev.calls[1]

\* C14: whenever enable_interrupt schedules a restore, pre_phrase_sent was
\* true on entry, in and out of sleep mode (here in runs where no channel
\* call has failed and the two callbacks have alternated).
C14_ScheduledOnlyAfterStart ==
    (ev.op = "enable_interrupt" /\ ev.after /\ clean /\ pairing # "broken")
        => ev.sent_before

\* C15: an enable_interrupt that passes its gate and finds
\* reenable_commands empty does nothing: pre_phrase_sent keeps its value (a
\* flag set by a phrase whose queries were all false stays true), the list
\* stays empty and nothing is scheduled.
C15_EmptyRestoreFrame ==
    ( /\ ev.op = "enable_interrupt"
      /\ nvda_running /\ spec_file /\ ~(mode_sleep /\ ~ev.sent_before)
      /\ ev.list_before = << >> )
    => /\ pre_phrase_sent = ev.sent_before
       /\ reenable_commands = << >>
       /\ ~ev.after

\* C15 witness: the flag is still true after the enable_interrupt that
\* closes a phrase whose three queries were false.
C15_Witness ==
    /\ ev.op = "enable_interrupt"
    /\ nvda_running /\ spec_file /\ ~mode_sleep
    /\ clean /\ ev.matched
    /\ ev.list_before = << >>
    /\ ev.sent_before
    /\ pre_phrase_sent

\* One step of C16.
C16_Step ==
    (ev'.op = "enable_interrupt" /\ after_restore /\ mode_sleep)
    => /\ ~pre_phrase_sent
       /\ ~ev'.gate
       /\ ~ev'.after
       /\ jobs' = jobs
       /\ ev'.calls = << >>
       /\ pre_phrase_sent' = pre_phrase_sent

\* C16: once an enable_interrupt has scheduled a restore, and until a
\* disable_interrupt passes its gate, every enable_interrupt called in sleep
\* mode finds pre_phrase_sent false, aborts at the gate and schedules
\* nothing.
C16_NoRepeatedRestoreInSleep ==
    [][C16_Step]_vars

\* C16 witness: an enable_interrupt in sleep mode, after the restore of the
\* phrase was scheduled, aborted although the list is still non-empty.
C16_Witness ==
    /\ ev.op = "enable_interrupt"
    /\ nvda_running /\ spec_file /\ mode_sleep
    /\ after_restore
    /\ ~ev.sent_before
    /\ ev.list_before # << >>
    /\ ~ev.after /\ ~ev.gate

\* C17: in an orderly run (reader running, awake, marker present, the
\* callbacks alternating, no channel failure), jobs running at any moment,
\* once the last phrase has ended and no job is pending every behaviour
\* that was enabled before the first phrase is enabled.
C17_NoSettingLost ==
    (Orderly(history, pairing, clean) /\ pairing = "pre" /\ jobs = << >>)
        => \A b \in BehaviourSet : nvda0[b] => nvda[b]

\* C18: between a gate-passing disable_interrupt and the next
\* enable_interrupt no job delivers an enable command and the three
\* behaviours stay disabled (here in runs where the two callbacks have
\* alternated and no channel call has failed).
C18_NoEnableWhileSuppressing ==
    (unmatched /\ clean /\ pairing # "broken")
        => /\ \A b \in BehaviourSet : ~nvda[b]
           /\ ev.op = "cron_job" => ev.calls = << << >> >>

\* The enable commands of the behaviours whose positions are in S, in the
\* order of the behaviours.
RECURSIVE EnableSubsequence(_, _)
EnableSubsequence(S, i) ==
    IF i > Len(Behaviours)
    THEN << >>
    ELSE (IF i \in S THEN << "enable" \o Behaviours[i] >> ELSE << >>)
         \o EnableSubsequence(S, i + 1)

\* C19: in every reachable state reenable_commands is a subsequence of
\* [enable interrupt-on-character, enable speak-typed-words, enable
\* speak-typed-characters]: enable forms only, obtained from query names by
\* the get-to-enable rewrite, no duplicates, at most 3 entries, never a
\* query or a disable command.
C19_ReenableShape ==
    /\ \E S \in SUBSET (1..Len(Behaviours)) :
          reenable_commands = EnableSubsequence(S, 1)
    /\ Len(reenable_commands) <= 3
    /\ \A k \in 1..Len(reenable_commands) :
          /\ \E q \in QueryNames, b \in BehaviourSet :
                q = "get" \o b /\ reenable_commands[k] = "enable" \o b
          /\ reenable_commands[k] \notin QueryNames
          /\ \A b \in BehaviourSet : reenable_commands[k] # "disable" \o b
          /\ \A j \in 1..Len(reenable_commands) :
                j # k => reenable_commands[j] # reenable_commands[k]

\* C19 witness: a disable_interrupt found all three behaviours enabled and
\* replaced a list that already held the three enable commands.
C19_Witness ==
    /\ ev.op = "disable_interrupt" /\ ev.kind = "ok"
    /\ Len(ev.list_before) = 3
    /\ Len(reenable_commands) = 3
    /\ reenable_commands[1] = "enableSpeechInterruptForCharacters"
    /\ reenable_commands[3] = "enableSpeakTypedCharacters"

TypeOK ==
    /\ pre_phrase_sent \in BOOLEAN
    /\ nvda \in [BehaviourSet -> BOOLEAN]
    /\ Len(jobs) <= MaxJobs
====
